---- MODULE Spec2Model ----
(***************************************************************************)
(* videofix: format-compliance check and remediation of media files.       *)
(*                                                                         *)
(* Two specifications:                                                     *)
(*   SpecPure  the pure functions (validation.rs, metadata.rs, the command *)
(*             construction of reencode, Config::find_target), each        *)
(*             applied once to inputs drawn by InitPure;                   *)
(*   Spec      one run of main: target resolution, then the loop over the  *)
(*             selected files (handle_file, reencode, the transcoder).     *)
(*                                                                         *)
(* Conventions.  Option<T> is a sequence of length 0 (None) or 1 (Some).   *)
(* Result<T> is [ok |-> TRUE, val |-> v] or [ok |-> FALSE, err |-> e]; an  *)
(* error message is the tuple of the pieces that format! concatenates.     *)
(* A path or OsStr is the sequence of its dot-separated components         *)
(* ("a.mkv" is <<"a", "mkv">>, "copy" is <<"copy">>).  A container or      *)
(* format name is a sequence of characters.                                *)
(***************************************************************************)
EXTENDS Integers, Sequences, FiniteSets, TLC

VARIABLES
    fn,            \* SpecPure: the function under application
    args,          \* SpecPure: its arguments
    ret,           \* SpecPure: Option of its return value
    pc,            \* Spec: position in main / handle_file / reencode
    config,        \* Spec: the loaded Config (read-only)
    should_fix,    \* Spec: args.fix
    requested,     \* Spec: args.target (Option)
    check_path,    \* Spec: the root path given to main, as the file system shows it
    check_paths,   \* Spec: the files still to handle, in selection order
    target,        \* Spec: Option of the resolved Target
    path,          \* Spec: Option of the file being handled
    metadata,      \* Spec: Option of the FileMetadata of `path`
    validation,    \* Spec: Option of the FormatValidation of `path`
    disk,          \* Spec: the set of paths that exist
    stdout,        \* Spec: the lines printed so far
    spawned,       \* Spec: the transcoder commands spawned so far
    child,         \* Spec: Option of the running transcoder process
    exits,         \* Spec: how each transcoder invocation ended
    handled,       \* Spec: per handled file, the Result of handle_file
    result         \* Spec: Option of the Result returned by main

pureVars == <<fn, args, ret>>
runVars == <<pc, config, should_fix, requested, check_path, check_paths, target,
             path, metadata, validation, disk, stdout, spawned, child, exits,
             handled, result>>
vars == <<fn, args, ret, pc, config, should_fix, requested, check_path,
          check_paths, target, path, metadata, validation, disk, stdout, spawned,
          child, exits, handled, result>>

(***************************************************************************)
(* Bounds                                                                  *)
(***************************************************************************)
MaxItems == 3      \* longest allow/reject list given to validate_format_component
MaxSpecItems == 1  \* longest list in a FormatSpec given to validate_format
MaxTargets == 3    \* most targets in a Config given to find_target
MaxStreams == 3    \* most streams in a prober answer
MaxFiles == 2      \* most files in a selection

(***************************************************************************)
(* Generic helpers                                                         *)
(***************************************************************************)
None == <<>>
Some(x) == <<x>>
Ok(v) == [ok |-> TRUE, val |-> v]
Err(e) == [ok |-> FALSE, err |-> e]
Range(s) == {s[i] : i \in DOMAIN s}
SeqsUpTo(S, n) == UNION {[1..k -> S] : k \in 0..n}
Str(s) == <<s>>

(***************************************************************************)
(* validation.rs                                                           *)
(***************************************************************************)
\* <[String]>::contains: a linear scan for an equal element
RECURSIVE contains(_, _)
contains(items, value) ==
    IF items = <<>> THEN FALSE
    ELSE Head(items) = value \/ contains(Tail(items), value)

allow(format, value) == contains(format, value)

reject_unnegated(format, value) == allow(format, value)
reject(format, value) == ~allow(format, value)

validate_format_component(format, value) ==
    IF format.tag = "Allow" THEN allow(format.items, value)
    ELSE reject(format.items, value)

validate_format(file, format) ==
    [audio_okay |-> validate_format_component(format.audio, file.audio.codec),
     video_okay |-> validate_format_component(format.video, file.video.codec),
     container_okay |-> validate_format_component(format.container, file.container)]

is_valid(self) == self.audio_okay /\ self.video_okay /\ self.container_okay

\* The flag main.rs reads as validation.pix_fmt_okay.  The FormatValidation of
\* validation.rs declares no such field and validate_format computes none; it
\* is the check of the fourth rule of FormatSpec on the observed pixel format.
pix_fmt_okay(file, format) ==
    validate_format_component(format.pix_fmt, file.video.pix_fmt)

(***************************************************************************)
(* metadata.rs                                                             *)
(***************************************************************************)
\* Iterator::take_while(|&c| c != ',') followed by collect
RECURSIVE take_while_not_comma(_)
take_while_not_comma(chars) ==
    IF chars = <<>> \/ Head(chars) = "," THEN <<>>
    ELSE <<Head(chars)>> \o take_while_not_comma(Tail(chars))

get_container(details) == take_while_not_comma(details.format.format_name)

\* the streams the filter closure keeps: codec_type is Some and equals stream_type
matching_streams(details, stream_type) ==
    SelectSeq(details.streams,
              LAMBDA s : IF s.codec_type = None THEN FALSE
                         ELSE s.codec_type[1] = stream_type)

find_stream_first_match(details, stream_type) ==
    LET m == matching_streams(details, stream_type) IN
    IF Len(m) = 0
    THEN Err(<<"no ", stream_type, " stream found in ", details.format.filename>>)
    ELSE Ok(m[1])
find_stream_by_type(details, stream_type) ==
    LET m == matching_streams(details, stream_type) IN
    IF Len(m) > 1
    THEN Err(<<"more than one matching ", stream_type, " stream in ",
               details.format.filename>>)
    ELSE IF Len(m) = 0
    THEN Err(<<"no ", stream_type, " stream found in ", details.format.filename>>)
    ELSE Ok(m[1])

get_codec(stream) ==
    IF stream.codec_name = None
    THEN Err(<<"no codec found for stream ", stream.index>>)
    ELSE Ok(stream.codec_name[1])

get_pix_fmt(stream) ==
    IF stream.pix_fmt = None
    THEN Err(<<"no pix_fmt found for stream ", stream.index>>)
    ELSE Ok(stream.pix_fmt[1])

get_video_metadata(details) ==
    LET video_stream == find_stream_by_type(details, "video") IN
    IF ~video_stream.ok THEN video_stream
    ELSE LET codec == get_codec(video_stream.val) IN
         IF ~codec.ok THEN codec
         ELSE LET pix == get_pix_fmt(video_stream.val) IN
              IF ~pix.ok THEN pix
              ELSE Ok([index |-> video_stream.val.index,
                       codec |-> codec.val,
                       pix_fmt |-> pix.val])

get_audio_metadata(details) ==
    LET audio_stream == find_stream_by_type(details, "audio") IN
    IF ~audio_stream.ok THEN audio_stream
    ELSE LET codec == get_codec(audio_stream.val) IN
         IF ~codec.ok THEN codec
         ELSE Ok([index |-> audio_stream.val.index,
                  codec |-> codec.val,
                  channels |-> IF audio_stream.val.channels = None THEN 0
                               ELSE audio_stream.val.channels[1]])

\* str::parse::<f64> on the duration strings the model's prober answers with
parse_f64(d) ==
    IF d = "120" THEN Some(120) ELSE IF d = "90" THEN Some(90) ELSE None

\* minutes, as the fraction seconds / 60
duration_minutes(details) ==
    IF details.format.duration = None THEN None
    ELSE LET secs == parse_f64(details.format.duration[1]) IN
         IF secs = None THEN None ELSE Some([num |-> secs[1], den |-> 60])

\* probe is the Result of ffprobe::ffprobe(path).  The fields of the struct
\* literal are evaluated in the order written: audio before video.
get_metadata(p, probe) ==
    IF ~probe.ok THEN Err(<<"ffprobe error in ", p, ": ", probe.err>>)
    ELSE LET details == probe.val
             audio == get_audio_metadata(details) IN
         IF ~audio.ok THEN audio
         ELSE LET video == get_video_metadata(details) IN
              IF ~video.ok THEN video
              ELSE Ok([container |-> get_container(details),
                       duration |-> duration_minutes(details),
                       video |-> video.val,
                       audio |-> audio.val])

(***************************************************************************)
(* main.rs: the pure parts                                                 *)
(***************************************************************************)
\* Path::with_extension: the last component is replaced when the file name has
\* an extension, and the new extension is appended otherwise
with_extension(p, extension) ==
    (IF Len(p) > 1 THEN SubSeq(p, 1, Len(p) - 1) ELSE p) \o extension

FIXED_MKV == <<"fixed", "mkv">>

out_path_of(in_path) == with_extension(in_path, FIXED_MKV)

vcodec_always_default(val, default) == default.video
vcodec(val, default) == IF val.video_okay THEN "copy" ELSE default.video

acodec(val, default) == IF val.audio_okay THEN "copy" ELSE default.audio

pix_fmt_args_always(val, default) == <<Str("-pix_fmt"), Str(default.pix_fmt)>>
pix_fmt_args(val, default) ==
    IF ~val.pix_fmt_okay THEN <<Str("-pix_fmt"), Str(default.pix_fmt)>> ELSE <<>>

\* the arguments of the Command that reencode builds
ffmpeg_args(in_path, val, default) ==
    <<Str("-loglevel"), Str("warning"), Str("-stats"), Str("-i"), in_path,
      Str("-c:v"), Str(vcodec(val, default))>>
    \o pix_fmt_args(val, default)
    \o <<Str("-c:a"), Str(acodec(val, default)), out_path_of(in_path)>>

\* Iterator::find over self.targets: the first position whose name is equal
RECURSIVE position_from(_, _, _)
position_from(targets, i, name) ==
    IF i > Len(targets) THEN None
    ELSE IF targets[i].name = name THEN Some(i)
    ELSE position_from(targets, i + 1, name)

RECURSIVE rposition_from(_, _, _)
rposition_from(targets, i, name) ==
    IF i < 1 THEN None
    ELSE IF targets[i].name = name THEN Some(i)
    ELSE rposition_from(targets, i - 1, name)

\* Ok holds the position of the Target the returned reference points to
find_target_last(targets, requested_target) ==
    LET found == rposition_from(targets, Len(targets), requested_target) IN
    IF found = None
    THEN Err(<<"could not find requested target \"", requested_target,
               "\" in config">>)
    ELSE Ok(found[1])
find_target(targets, requested_target) ==
    LET found == position_from(targets, 1, requested_target) IN
    IF found = None
    THEN Err(<<"could not find requested target \"", requested_target,
               "\" in config">>)
    ELSE Ok(found[1])

(***************************************************************************)
(* Input domains                                                           *)
(***************************************************************************)
AVI == <<"a", "v", "i">>
MOV == <<"m", "o", "v">>
MOV_MP4 == <<"m", "o", "v", ",", "m", "p", "4">>

Containers == {AVI, MOV}
VideoCodecs == {"h264", "vp9"}
AudioCodecs == {"aac", "mp3"}
PixFmts == {"yuv420p", "yuv444p"}
ComponentValues == {"aac", "mp3", "flac"}

FormatsOver(S, n) == [tag : {"Allow", "Reject"}, items : SeqsUpTo(S, n)]

FormatSpecs ==
    [audio : FormatsOver(AudioCodecs, MaxSpecItems),
     video : FormatsOver(VideoCodecs, MaxSpecItems),
     container : FormatsOver(Containers, MaxSpecItems),
     pix_fmt : FormatsOver(PixFmts, MaxSpecItems)]

FileMetadatas ==
    [container : Containers,
     duration : {None},
     video : [index : {0}, codec : VideoCodecs, pix_fmt : PixFmts],
     audio : [index : {1}, codec : AudioCodecs, channels : {2}]]

FormatValidations ==
    [audio_okay : BOOLEAN, video_okay : BOOLEAN, container_okay : BOOLEAN,
     pix_fmt_okay : BOOLEAN]

DefaultFormats ==
    [audio : {"aac", "copy"}, video : {"libx264", "copy"}, pix_fmt : PixFmts]

InPaths == {<<"a", "mkv">>, <<"clip">>, <<"a", "fixed", "mkv">>}

\* one policy and two remediation targets, for the configurations
H264_AAC ==
    [audio |-> [tag |-> "Allow", items |-> <<"aac">>],
     video |-> [tag |-> "Allow", items |-> <<"h264">>],
     container |-> [tag |-> "Reject", items |-> <<AVI>>],
     pix_fmt |-> [tag |-> "Allow", items |-> <<"yuv420p">>]]
ToX264 == [audio |-> "aac", video |-> "libx264", pix_fmt |-> "yuv420p"]
ToCopy == [audio |-> "copy", video |-> "copy", pix_fmt |-> "yuv444p"]

TargetNames == {"", "hd", "HD"}
Targets == [name : TargetNames, format_spec : {H264_AAC}, default : {ToX264, ToCopy}]
RequestedNames == TargetNames \cup {"sd"}

\* what the prober can say of one stream; index is the stream's position
StreamShapes ==
    [codec_type : {Some("video")}, codec_name : {None, Some("h264")},
     pix_fmt : {None, Some("yuv420p")}, channels : {None}]
    \cup [codec_type : {Some("audio")}, codec_name : {None, Some("aac")},
          pix_fmt : {None}, channels : {None, Some(2)}]
    \cup [codec_type : {Some("subtitle"), None}, codec_name : {Some("subrip")},
          pix_fmt : {None}, channels : {None}]

with_index(shapes) ==
    [i \in DOMAIN shapes |->
        [index |-> i - 1, codec_type |-> shapes[i].codec_type,
         codec_name |-> shapes[i].codec_name, pix_fmt |-> shapes[i].pix_fmt,
         channels |-> shapes[i].channels]]

FfFormats ==
    {[filename |-> <<"a", "mkv">>, format_name |-> AVI, duration |-> None],
     [filename |-> <<"a", "mkv">>, format_name |-> MOV_MP4, duration |-> Some("120")],
     [filename |-> <<"a", "mkv">>, format_name |-> MOV_MP4, duration |-> Some("N/A")]}

ProbeResults ==
    {Err("No such file or directory")}
    \cup {Ok([format |-> f, streams |-> with_index(sh)]) :
            f \in FfFormats, sh \in SeqsUpTo(StreamShapes, MaxStreams)}

(***************************************************************************)
(* SpecPure: each pure function applied once                               *)
(***************************************************************************)
RunIdle ==
    /\ pc = "idle"
    /\ config = [default_target |-> "", targets |-> <<>>]
    /\ should_fix = FALSE
    /\ requested = None
    /\ check_path = [kind |-> "missing"]
    /\ check_paths = <<>>
    /\ target = None
    /\ path = None
    /\ metadata = None
    /\ validation = None
    /\ disk = {}
    /\ stdout = <<>>
    /\ spawned = <<>>
    /\ child = None
    /\ exits = <<>>
    /\ handled = <<>>
    /\ result = None

InitPure ==
    /\ RunIdle
    /\ ret = None
    /\ \/ /\ fn = "validate_format_component"
          /\ args \in [format : FormatsOver(ComponentValues, MaxItems),
                       value : ComponentValues]
       \/ /\ fn = "validate_format"
          /\ args \in [file : FileMetadatas, format : FormatSpecs]
       \/ /\ fn = "ffmpeg_args"
          /\ args \in [in_path : InPaths, val : FormatValidations,
                       default : DefaultFormats]
       \/ /\ fn = "find_target"
          /\ args \in [targets : SeqsUpTo(Targets, MaxTargets),
                       requested_target : RequestedNames]
       \/ /\ fn = "get_metadata"
          /\ args \in [path : {<<"a", "mkv">>}, probe : ProbeResults]

ValidateFormatComponent ==
    /\ fn = "validate_format_component" /\ ret = None
    /\ ret' = Some(validate_format_component(args.format, args.value))
    /\ UNCHANGED <<fn, args, runVars>>

ValidateFormat ==
    /\ fn = "validate_format" /\ ret = None
    /\ ret' = Some(validate_format(args.file, args.format))
    /\ UNCHANGED <<fn, args, runVars>>

FfmpegArgs ==
    /\ fn = "ffmpeg_args" /\ ret = None
    /\ ret' = Some(ffmpeg_args(args.in_path, args.val, args.default))
    /\ UNCHANGED <<fn, args, runVars>>

FindTarget ==
    /\ fn = "find_target" /\ ret = None
    /\ ret' = Some(find_target(args.targets, args.requested_target))
    /\ UNCHANGED <<fn, args, runVars>>

GetMetadata ==
    /\ fn = "get_metadata" /\ ret = None
    /\ ret' = Some(get_metadata(args.path, args.probe))
    /\ UNCHANGED <<fn, args, runVars>>

NextPure ==
    \/ ValidateFormatComponent
    \/ ValidateFormat
    \/ FfmpegArgs
    \/ FindTarget
    \/ GetMetadata

SpecPure == InitPure /\ [][NextPure]_vars

(***************************************************************************)
(* Properties of the pure functions (SpecPure)                             *)
(***************************************************************************)
Applied(f) == fn = f /\ ret /= None

Compliant(rule, v) ==
    IF rule.tag = "Allow" THEN v \in Range(rule.items) ELSE v \notin Range(rule.items)

\* C1: validate_format_component is true for Allow(S) iff the value is a member
\* of S and true for Reject(S) iff it is not, for every list S, the empty list
\* included.
C1_AllowRejectMembership ==
    Applied("validate_format_component") =>
        /\ args.format.tag = "Allow" =>
               (ret[1] <=> args.value \in Range(args.format.items))
        /\ args.format.tag = "Reject" =>
               (ret[1] <=> args.value \notin Range(args.format.items))
        /\ args.format.items = <<>> => (ret[1] <=> args.format.tag = "Reject")

C1_Witness ==
    /\ Applied("validate_format_component")
    /\ args.format = [tag |-> "Reject", items |-> <<"aac", "mp3", "aac">>]
    /\ args.value = "mp3"
    /\ ret[1] = FALSE

\* C2: the FormatValidation returned by validate_format is valid iff all four
\* per-dimension checks (container, video codec, audio codec, pixel format) are
\* compliant.
C2_ValidIffAllFour ==
    Applied("validate_format") =>
        (is_valid(ret[1]) <=>
            /\ Compliant(args.format.container, args.file.container)
            /\ Compliant(args.format.video, args.file.video.codec)
            /\ Compliant(args.format.audio, args.file.audio.codec)
            /\ Compliant(args.format.pix_fmt, args.file.video.pix_fmt))

HasFlag(cmd, flag) == \E i \in 1..Len(cmd) : cmd[i] = Str(flag)
ArgAfter(cmd, flag) == cmd[(CHOOSE i \in 1..Len(cmd) : cmd[i] = Str(flag)) + 1]

\* C3 as stated: the video codec argument is "copy" iff video_okay and
\* otherwise default.video; the audio codec argument is "copy" iff audio_okay
\* and otherwise default.audio.
C3_CopyIffOkay ==
    Applied("ffmpeg_args") =>
        /\ ArgAfter(ret[1], "-c:v") = Str("copy") <=> args.val.video_okay
        /\ ~args.val.video_okay => ArgAfter(ret[1], "-c:v") = Str(args.default.video)
        /\ ArgAfter(ret[1], "-c:a") = Str("copy") <=> args.val.audio_okay
        /\ ~args.val.audio_okay => ArgAfter(ret[1], "-c:a") = Str(args.default.audio)

\* C3 amended: the video codec argument is "copy" if video_okay and otherwise
\* default.video, so it is "copy" iff video_okay or default.video is itself
\* "copy"; likewise the audio codec argument with audio_okay and default.audio.
C3_CodecArguments ==
    Applied("ffmpeg_args") =>
        /\ ArgAfter(ret[1], "-c:v") =
               Str(IF args.val.video_okay THEN "copy" ELSE args.default.video)
        /\ ArgAfter(ret[1], "-c:v") = Str("copy") <=>
               (args.val.video_okay \/ args.default.video = "copy")
        /\ ArgAfter(ret[1], "-c:a") =
               Str(IF args.val.audio_okay THEN "copy" ELSE args.default.audio)
        /\ ArgAfter(ret[1], "-c:a") = Str("copy") <=>
               (args.val.audio_okay \/ args.default.audio = "copy")

C3_Witness ==
    /\ Applied("ffmpeg_args")
    /\ ~args.val.video_okay /\ args.val.audio_okay
    /\ args.default.video = "libx264" /\ args.default.audio = "aac"
    /\ ArgAfter(ret[1], "-c:v") = Str("libx264")
    /\ ArgAfter(ret[1], "-c:a") = Str("copy")

Matches(targets, name) == {i \in DOMAIN targets : targets[i].name = name}
Least(S) == CHOOSE i \in S : \A j \in S : i <= j

\* C5: find_target returns the earliest-positioned Target whose name equals the
\* requested string exactly, also with duplicated names, and a "not found"
\* error naming the requested target when no name equals it.
C5_FirstExactMatch ==
    Applied("find_target") =>
        LET m == Matches(args.targets, args.requested_target) IN
        IF m = {}
        THEN /\ ~ret[1].ok
             /\ ret[1].err[1] = "could not find requested target \""
             /\ ret[1].err[2] = args.requested_target
        ELSE /\ ret[1].ok
             /\ ret[1].val = Least(m)
             /\ args.targets[ret[1].val].name = args.requested_target

C5_Witness ==
    /\ Applied("find_target")
    /\ Len(args.targets) = 3
    /\ args.targets[1].name = "HD"
    /\ args.targets[2].name = "hd" /\ args.targets[3].name = "hd"
    /\ args.targets[2].default /= args.targets[3].default
    /\ args.requested_target = "hd"
    /\ ret[1].ok /\ ret[1].val = 2

Count(details, kind) ==
    Cardinality({i \in DOMAIN details.streams :
                    details.streams[i].codec_type = Some(kind)})
NoStream(details, kind) ==
    <<"no ", kind, " stream found in ", details.format.filename>>
TooMany(details, kind) ==
    <<"more than one matching ", kind, " stream in ", details.format.filename>>
CountError(details, kind) ==
    IF Count(details, kind) = 0 THEN NoStream(details, kind)
    ELSE TooMany(details, kind)
Kinds == {"video", "audio"}

\* C8 as stated: get_metadata yields a FileMetadata only with exactly one video
\* and one audio stream; with zero streams of a kind it fails with "no <kind>
\* stream found" and with two or more with "more than one matching <kind>
\* stream".
C8_CountErrorPerKind ==
    (Applied("get_metadata") /\ args.probe.ok) =>
        LET d == args.probe.val
            r == ret[1] IN
        /\ r.ok => \A k \in Kinds : Count(d, k) = 1
        /\ (\E k \in Kinds : Count(d, k) /= 1) =>
              /\ ~r.ok
              /\ \E k \in Kinds : Count(d, k) /= 1 /\ r.err = CountError(d, k)

\* C8 amended: get_metadata yields a FileMetadata only with exactly one video
\* and one audio stream and fails whenever either count is not one;
\* find_stream_by_type fails with "no <kind> stream found" for zero streams of
\* the kind and "more than one matching <kind> stream" for two or more; the
\* audio stream and its codec are looked up before the video stream and the
\* first error is the one returned: a wrong audio count is reported whatever
\* the video streams are, a unique audio stream without codec name is reported
\* as "no codec found", and only then a wrong video count.
C8_FirstCountError ==
    (Applied("get_metadata") /\ args.probe.ok) =>
        LET d == args.probe.val
            r == ret[1]
            audio == matching_streams(d, "audio") IN
        /\ r.ok => \A k \in Kinds : Count(d, k) = 1
        /\ (\E k \in Kinds : Count(d, k) /= 1) => ~r.ok
        /\ \A k \in Kinds :
              LET f == find_stream_by_type(d, k) IN
              /\ Count(d, k) = 0 => (~f.ok /\ f.err = NoStream(d, k))
              /\ Count(d, k) >= 2 => (~f.ok /\ f.err = TooMany(d, k))
              /\ Count(d, k) = 1 => f.ok
        /\ Count(d, "audio") /= 1 => r.err = CountError(d, "audio")
        /\ (Count(d, "audio") = 1 /\ audio[1].codec_name = None) =>
              (~r.ok /\ r.err = <<"no codec found for stream ", audio[1].index>>)
        /\ (/\ Count(d, "audio") = 1
            /\ audio[1].codec_name /= None
            /\ Count(d, "video") /= 1) => r.err = CountError(d, "video")

C8_Witness ==
    /\ Applied("get_metadata") /\ args.probe.ok
    /\ Count(args.probe.val, "video") = 0
    /\ Count(args.probe.val, "audio") = 2
    /\ ~ret[1].ok
    /\ ret[1].err = TooMany(args.probe.val, "audio")

(***************************************************************************)
(* Spec: one run of main                                                   *)
(***************************************************************************)
VALID_EXTENSIONS == {"mkv", "mp4", "avi", "webm", "mov", "wmv"}
MinWidth == 100

\* Path::extension
extension(p) == IF Len(p) > 1 THEN Some(p[Len(p)]) ELSE None

\* get_paths: the direct children that are files with a whitelisted extension,
\* in the order of the directory listing
get_paths(entries) ==
    LET keep(e) == /\ e.is_file
                   /\ extension(e.path) /= None
                   /\ extension(e.path)[1] \in VALID_EXTENSIONS
        kept == SelectSeq(entries, keep) IN
    [i \in DOMAIN kept |-> kept[i].path]

needs_fix_whenever_asked(val, fix) == fix
needs_fix(val, fix) == ~is_valid(val) /\ fix

exists_never(out_path, files) == FALSE
exists(out_path, files) == out_path \in files

\* the configuration of the runs, and what the run can meet on the way
TheConfig ==
    [default_target |-> "hd",
     targets |-> <<[name |-> "hd", format_spec |-> H264_AAC, default |-> ToX264],
                   [name |-> "HD", format_spec |-> H264_AAC, default |-> ToCopy]>>]

DirEntries ==
    {[path |-> <<"a", "mkv">>, is_file |-> TRUE],
     [path |-> <<"a", "mp4">>, is_file |-> TRUE],
     [path |-> <<"b", "txt">>, is_file |-> TRUE],
     [path |-> <<"c", "mkv">>, is_file |-> FALSE]}

Listings ==
    {l \in SeqsUpTo(DirEntries, MaxFiles) :
        \A i, j \in DOMAIN l : i /= j => l[i] /= l[j]}

CheckPaths ==
    {[kind |-> "missing"]}
    \cup {[kind |-> "file", path |-> p] : p \in {<<"a", "mkv">>, <<"clip">>}}
    \cup {[kind |-> "dir", entries |-> l] : l \in Listings}

Stream(type, codec, pix, channels) ==
    [codec_type |-> Some(type), codec_name |-> Some(codec), pix_fmt |-> pix,
     channels |-> channels]
Probe(p, format_name, shapes) ==
    Ok([format |-> [filename |-> p, format_name |-> format_name,
                    duration |-> Some("120")],
        streams |-> with_index(shapes)])

\* the answers of the prober for path p
RunProbes(p) ==
    {Err("No such file or directory"),
     Probe(p, MOV_MP4, <<Stream("video", "h264", Some("yuv420p"), None),
                         Stream("audio", "aac", None, Some(2))>>),
     Probe(p, MOV_MP4, <<Stream("video", "h264", Some("yuv444p"), None),
                         Stream("audio", "aac", None, Some(2))>>),
     Probe(p, AVI, <<Stream("video", "vp9", Some("yuv420p"), None),
                     Stream("audio", "aac", None, Some(2))>>),
     Probe(p, MOV_MP4, <<Stream("audio", "mp3", None, Some(2)),
                         Stream("video", "h264", Some("yuv420p"), None)>>),
     Probe(p, MOV_MP4, <<Stream("video", "h264", Some("yuv420p"), None)>>)}

TerminalWidths == {None, Some(80), Some(100)}

Init ==
    /\ fn = "" /\ args = <<>> /\ ret = None
    /\ pc = "find_target"
    /\ config = TheConfig
    /\ should_fix \in BOOLEAN
    /\ requested \in {None, Some("HD"), Some("sd")}
    /\ check_path \in CheckPaths
    /\ check_paths = <<>>
    /\ target = None
    /\ path = None
    /\ metadata = None
    /\ validation = None
    /\ \E fixed \in SUBSET {<<"a", "fixed", "mkv">>} :
          disk = fixed
                 \cup (IF check_path.kind = "file" THEN {check_path.path} ELSE {})
                 \cup (IF check_path.kind = "dir"
                       THEN {check_path.entries[i].path : i \in DOMAIN check_path.entries}
                       ELSE {})
    /\ stdout = <<>>
    /\ spawned = <<>>
    /\ child = None
    /\ exits = <<>>
    /\ handled = <<>>
    /\ result = None

\* main returns: with `?` an error of a callee is the error of main
Return(r) == /\ result' = Some(r)
             /\ pc' = "done"

\* main.rs 59-60
ResolveTarget ==
    /\ pc = "find_target"
    /\ LET requested_target == IF requested = None THEN config.default_target
                               ELSE requested[1]
           found == find_target(config.targets, requested_target) IN
       IF ~found.ok
       THEN /\ Return(found)
            /\ UNCHANGED target
       ELSE /\ target' = Some(config.targets[found.val])
            /\ pc' = "select"
            /\ UNCHANGED result
    /\ UNCHANGED <<pureVars, config, should_fix, requested, check_path, check_paths,
                   path, metadata, validation, disk, stdout, spawned, child, exits,
                   handled>>

\* main.rs 62-74
SelectFiles ==
    /\ pc = "select"
    /\ IF check_path.kind = "missing"
       THEN /\ Return(Err(<<"No such file or directory (os error 2)">>))
            /\ UNCHANGED <<check_paths, stdout>>
       ELSE /\ check_paths' = IF check_path.kind = "file" THEN <<check_path.path>>
                              ELSE get_paths(check_path.entries)
            /\ stdout' = Append(stdout,
                                [kind |-> "checking", count |-> Len(check_paths'),
                                 target |-> IF requested = None
                                            THEN config.default_target
                                            ELSE requested[1]])
            /\ pc' = "loop"
            /\ UNCHANGED result
    /\ UNCHANGED <<pureVars, config, should_fix, requested, check_path, target, path,
                   metadata, validation, disk, spawned, child, exits, handled>>

\* main.rs 75-80: the next turn of the loop, or Ok(()) after the last
NextFile ==
    /\ pc = "loop"
    /\ IF check_paths = <<>>
       THEN /\ Return(Ok(<<>>))
            /\ UNCHANGED <<check_paths, path, metadata, validation>>
       ELSE /\ path' = Some(Head(check_paths))
            /\ check_paths' = Tail(check_paths)
            /\ metadata' = None
            /\ validation' = None
            /\ pc' = "get_metadata"
            /\ UNCHANGED result
    /\ UNCHANGED <<pureVars, config, should_fix, requested, check_path, target, disk,
                   stdout, spawned, child, exits, handled>>

\* handle_file returns r for the file in hand; main.rs 77 hands an error on
HandleFileReturns(r) ==
    /\ handled' = Append(handled, [path |-> path[1], result |-> r])
    /\ IF r.ok THEN pc' = "loop" /\ UNCHANGED result
       ELSE Return(r)

\* main.rs 115
Extract ==
    /\ pc = "get_metadata"
    /\ \E probe \in RunProbes(path[1]) :
          LET m == get_metadata(path[1], probe) IN
          IF ~m.ok
          THEN /\ HandleFileReturns(m)
               /\ UNCHANGED metadata
          ELSE /\ metadata' = Some(m.val)
               /\ pc' = "validate"
               /\ UNCHANGED <<handled, result>>
    /\ UNCHANGED <<pureVars, config, should_fix, requested, check_path, check_paths,
                   target, path, validation, disk, stdout, spawned, child, exits>>

\* main.rs 116-124: validate, report, and decide on the remediation
Report ==
    /\ pc = "validate"
    /\ LET three == validate_format(metadata[1], target[1].format_spec)
           val == [audio_okay |-> three.audio_okay,
                   video_okay |-> three.video_okay,
                   container_okay |-> three.container_okay,
                   pix_fmt_okay |-> pix_fmt_okay(metadata[1], target[1].format_spec)] IN
       /\ validation' = Some(val)
       /\ stdout' = Append(stdout, [kind |-> "report", path |-> path[1],
                                    metadata |-> metadata[1], validation |-> val])
       /\ IF needs_fix(val, should_fix)
          THEN /\ pc' = "reencode"
               /\ UNCHANGED <<handled, result>>
          ELSE HandleFileReturns(Ok(<<>>))
    /\ UNCHANGED <<pureVars, config, should_fix, requested, check_path, check_paths,
                   target, path, metadata, disk, spawned, child, exits>>

\* main.rs 158-176: the output path, the check that nothing is there, and
\* guard_terminal_size
ReencodeCheck ==
    /\ pc = "reencode"
    /\ LET out_path == out_path_of(path[1]) IN
       IF exists(out_path, disk)
       THEN /\ HandleFileReturns(Err(<<"fix target ", out_path, " already exists">>))
            /\ UNCHANGED stdout
       ELSE /\ \E w \in TerminalWidths :
                  stdout' = IF w /= None /\ w[1] < MinWidth
                            THEN Append(stdout, [kind |-> "terminal"])
                            ELSE stdout
            /\ pc' = "spawn"
            /\ UNCHANGED <<handled, result>>
    /\ UNCHANGED <<pureVars, config, should_fix, requested, check_path, check_paths,
                   target, path, metadata, validation, disk, spawned, child, exits>>

\* main.rs 178-195: the command is built and spawned; spawn can fail
Spawn ==
    /\ pc = "spawn"
    /\ LET cmd == [in_path |-> path[1],
                   args |-> ffmpeg_args(path[1], validation[1], target[1].default)] IN
       \/ /\ spawned' = Append(spawned, cmd)
          /\ child' = Some(cmd)
          /\ pc' = "wait"
          /\ UNCHANGED <<exits, handled, result>>
       \/ /\ exits' = Append(exits, [path |-> path[1], outcome |-> "spawn_failed",
                                     status |-> None])
          /\ HandleFileReturns(Err(<<"No such file or directory (os error 2)">>))
          /\ UNCHANGED <<spawned, child>>
    /\ UNCHANGED <<pureVars, config, should_fix, requested, check_path, check_paths,
                   target, path, metadata, validation, disk, stdout>>

\* main.rs 197-199: the child ends with some exit status, which wait returns
\* and reencode drops; a transcoder that succeeded has written the output
\* file, one that failed may have left one
Wait ==
    /\ pc = "wait"
    /\ \E status \in {0, 1}, written \in BOOLEAN :
          /\ status = 0 => written
          /\ disk' = IF written THEN disk \cup {out_path_of(path[1])} ELSE disk
          /\ exits' = Append(exits, [path |-> path[1], outcome |-> "exited",
                                     status |-> Some(status)])
    /\ child' = None
    /\ HandleFileReturns(Ok(<<>>))
    /\ UNCHANGED <<pureVars, config, should_fix, requested, check_path, check_paths,
                   target, path, metadata, validation, stdout, spawned>>

Next ==
    \/ ResolveTarget
    \/ SelectFiles
    \/ NextFile
    \/ Extract
    \/ Report
    \/ ReencodeCheck
    \/ Spawn
    \/ Wait

Spec == Init /\ [][Next]_vars

(***************************************************************************)
(* Properties of the run (Spec)                                            *)
(***************************************************************************)
\* C4: when a file exists at the derived output path, reencode returns the
\* "fix target ... already exists" error without spawning the transcoder, and
\* the transcoder is only ever spawned right after a check that found the
\* output path free.
C4_ExistsCheckBeforeSpawn ==
    [][/\ (pc = "reencode" /\ out_path_of(path[1]) \in disk) =>
              /\ spawned' = spawned
              /\ child' = child
              /\ handled' = Append(handled,
                     [path |-> path[1],
                      result |-> Err(<<"fix target ", out_path_of(path[1]),
                                       " already exists">>)])
              /\ pc' = "done"
              /\ result' = Some(handled'[Len(handled')].result)
       /\ pc' = "spawn" => (pc = "reencode" /\ out_path_of(path[1]) \notin disk)
       /\ spawned' /= spawned =>
              /\ pc = "spawn"
              /\ out_path_of(path[1]) \notin disk
              /\ Len(spawned') = Len(spawned) + 1
              /\ spawned'[Len(spawned')].in_path = path[1]
      ]_vars

C4_Witness ==
    /\ pc = "done"
    /\ Len(spawned) = 1 /\ spawned[1].in_path = <<"a", "mkv">>
    /\ Len(handled) = 2 /\ handled[2].path = <<"a", "mp4">>
    /\ ~handled[2].result.ok
    /\ handled[2].result.err[1] = "fix target "
    /\ handled[2].result.err[2] = <<"a", "fixed", "mkv">>

IsExtractionError(r) ==
    /\ ~r.ok
    /\ r.err[1] \in {"ffprobe error in ", "no ", "more than one matching ",
                     "no codec found for stream ", "no pix_fmt found for stream "}

\* C6: a metadata-extraction failure on one file does not abort the run: the
\* run does not end with that error while later files of the selection are
\* still unhandled.
C6_ExtractionFailureIsolated ==
    \A i \in DOMAIN handled :
        (IsExtractionError(handled[i].result) /\ pc = "done") => check_paths = <<>>

Failed(e) ==
    \/ e.outcome = "spawn_failed"
    \/ e.outcome = "exited" /\ e.status[1] /= 0

\* C7: when the transcoder fails to start or exits with a non-zero status,
\* handle_file returns an error for that file.
C7_TranscoderFailurePropagated ==
    \A i \in DOMAIN exits :
        Failed(exits[i]) =>
            \A j \in DOMAIN handled :
                handled[j].path = exits[i].path => ~handled[j].result.ok

IsReportOf(line, p) == line.kind = "report" /\ line.path = p

\* C9: the transcoder is invoked for a file only if fix is set and the
\* validation computed from that file's own metadata is not valid, and only
\* after that file's report; a valid file, or any file without fix, causes no
\* invocation.
C9_SpawnOnlyInvalidAndAsked ==
    /\ \A i \in DOMAIN spawned :
          /\ should_fix
          /\ \E j \in DOMAIN stdout :
                /\ IsReportOf(stdout[j], spawned[i].in_path)
                /\ ~is_valid(stdout[j].validation)
                /\ LET fresh == validate_format(stdout[j].metadata,
                                                target[1].format_spec) IN
                   /\ stdout[j].validation.audio_okay = fresh.audio_okay
                   /\ stdout[j].validation.video_okay = fresh.video_okay
                   /\ stdout[j].validation.container_okay = fresh.container_okay
                /\ spawned[i].args = ffmpeg_args(spawned[i].in_path,
                                                 stdout[j].validation,
                                                 target[1].default)
    /\ \A j \in DOMAIN stdout :
          (stdout[j].kind = "report" /\ is_valid(stdout[j].validation)) =>
              \A i \in DOMAIN spawned : spawned[i].in_path /= stdout[j].path
    /\ ~should_fix => spawned = <<>>
    /\ pc \in {"reencode", "spawn", "wait"} =>
          /\ should_fix
          /\ ~is_valid(validation[1])
          /\ IsReportOf(stdout[Len(stdout) - (IF stdout[Len(stdout)].kind = "terminal"
                                              THEN 1 ELSE 0)], path[1])

C9_Witness ==
    /\ pc = "wait"
    /\ Len(handled) = 1 /\ handled[1].result.ok
    /\ Len(spawned) = 1
    /\ spawned[1].in_path = <<"a", "mp4">>
    /\ ~validation[1].video_okay

====
